---- MODULE Spec2Model ----
(***************************************************************************)
(* Local (basic-block level) constant propagation of redex:                *)
(* opt/constant_propagation/LocalConstProp.cpp.                            *)
(*                                                                         *)
(* The state is the abstract environment of the block being scanned, the   *)
(* pass configuration, the list of deferred instruction replacements and   *)
(* the two counters of LocalConstantPropagation.  One action models        *)
(* analyze_instruction, one models simplify_instruction; the driver calls  *)
(* them in that order on every instruction of a block.                     *)
(*                                                                         *)
(* Three specifications share the two calls: Spec scans a block from the   *)
(* fresh (or an unreachable) environment, SpecEntry applies one            *)
(* instruction to an arbitrary entry environment, and SpecRun scans a      *)
(* block from the fresh environment with the instruction stream recorded   *)
(* and the block executed alongside on concrete registers.                 *)
(*                                                                         *)
(* 64-bit integers are kept at full width as three limbs <<hi, l1, l0>>    *)
(* (value = hi * 2^32 + l1 * 2^16 + l0, hi a signed 32-bit word, l1 and l0 *)
(* unsigned 16-bit words); 32-bit integers are plain integers in the       *)
(* signed 32-bit range.                                                    *)
(***************************************************************************)
EXTENDS Integers, Sequences, FiniteSets, TLC

VARIABLES
  m_config,              \* [fold_arithmetic, replace_moves_with_consts]
  current_state,         \* ConstPropEnvironment: register -> abstract value
  m_insn_replacements,   \* sequence of (original, replacement) pairs
  m_branch_propagated,   \* counter: branches folded
  m_materialized_consts, \* counter: constants materialized
  inst,                  \* <<>> or <<i>>: the instruction the driver is at
  pre_state,             \* the environment analyze_instruction was called with
  phase,                 \* "analyze": next call is analyze_instruction; "simplify"
  scanned,               \* number of instructions analyzed so far
  fresh,                 \* the block was entered with the all-Top environment
  unproven,              \* registers written so far by default-path opcodes only
  branch_result,         \* what eval_if returned in the last simplify_instruction
  top_call,              \* arguments of the set_top calls made by the last analyze
  block,                 \* the instruction stream of the block, as far as scanned
  regfile,               \* the registers of a concrete execution of the block
  regfile_before,        \* the registers before the last instruction executed
  taken                  \* whether the last instruction executed was a taken branch

vars == <<m_config, current_state, m_insn_replacements, m_branch_propagated,
          m_materialized_consts, inst, pre_state, phase, scanned, fresh,
          unproven, branch_result, top_call, block, regfile, regfile_before,
          taken>>

----------------------------------------------------------------------------
(* Bounds of the model.                                                    *)

\* Instructions per block when the block is scanned from a fresh environment.
MaxBlockLen == 3

\* Instructions per block when the stream of the block is recorded.
MaxRunLen == 3

Regs == {0, 1}

----------------------------------------------------------------------------
(* Fixed-width integers.                                                   *)

INT32_MAX == 2147483647

INT32_MIN == (-INT32_MAX) - 1

Limb == 2^16

\* int32_t -> int64_t (implicit widening conversion).
SignExtend(n) == << IF n < 0 THEN -1 ELSE 0, (n \div Limb) % Limb, n % Limb >>

\* int64_t -> int32_t (implicit narrowing conversion: the low 32 bits).
Truncate32(x) ==
  IF x[2] >= Limb \div 2 THEN (x[2] - Limb) * Limb + x[3] ELSE x[2] * Limb + x[3]

Lt64(a, b) ==
  \/ a[1] < b[1]
  \/ a[1] = b[1] /\ a[2] < b[2]
  \/ a[1] = b[1] /\ a[2] = b[2] /\ a[3] < b[3]

Le64(a, b) == a = b \/ Lt64(a, b)

INT64_MAX == << INT32_MAX, Limb - 1, Limb - 1 >>

INT64_MIN == << INT32_MIN, 0, 0 >>

Zero64 == << 0, 0, 0 >>

----------------------------------------------------------------------------
(* The abstract value domain (SignedConstantDomain) and the environment    *)
(* utilities (ConstPropEnvUtil) that LocalConstProp.cpp consumes.          *)

Top == [kind |-> "top", min |-> INT64_MIN, max |-> INT64_MAX]

\* SignedConstantDomain(v, ConstantValue::NARROW)
NarrowConstant(n) == [kind |-> "narrow", min |-> SignExtend(n), max |-> SignExtend(n)]

\* SignedConstantDomain(v, ConstantValue::WIDE)
WideConstant(x) == [kind |-> "wide", min |-> x, max |-> x]

\* A sign interval without an exact constant, as the global analysis supplies.
Interval(lo, hi) == [kind |-> "interval", min |-> lo, max |-> hi]

\* constant_domain().is_value()
is_value(v) == v.kind \in {"narrow", "wide"}

\* constant_domain().value().constant()
constant(v) == v.min

min_element(v) == v.min

max_element(v) == v.max

\* ConstPropEnvironment: the register bindings and the whole-environment
\* unreachability flag.
Environment(bottom, regs) == [bottom |-> bottom, regs |-> regs]

is_bottom(env) == env.bottom

get(env, reg) == env.regs[reg]

set(env, reg, v) == [env EXCEPT !.regs[reg] = v]

set_narrow(env, reg, value) == set(env, reg, NarrowConstant(value))

set_wide(env, reg, value) == set(env, reg, WideConstant(value))

set_top(env, reg, is_wide) == set(env, reg, Top)

is_narrow_constant(env, reg) == get(env, reg).kind = "narrow"

is_wide_constant(env, reg) == get(env, reg).kind = "wide"

get_narrow(env, reg) == Truncate32(constant(get(env, reg)))

get_wide(env, reg) == constant(get(env, reg))

\* get_constant_value<Stored>: [ok, value]; value is meaningful only when ok.
get_constant_value(env, reg, Stored) ==
  IF Stored = "int32_t"
    THEN IF is_narrow_constant(env, reg)
           THEN [ok |-> TRUE, value |-> get_narrow(env, reg)]
           ELSE [ok |-> FALSE, value |-> 0]
    ELSE IF is_wide_constant(env, reg)
           THEN [ok |-> TRUE, value |-> get_wide(env, reg)]
           ELSE [ok |-> FALSE, value |-> Zero64]

----------------------------------------------------------------------------
(* Instructions (IRInstruction): opcode, destination, sources, literal,    *)
(* and the target label the enclosing branch entry carries.                *)

Insn(op, dests, srcs, literal, target) ==
  [op |-> op, dests |-> dests, srcs |-> srcs, literal |-> literal, target |-> target]

\* new IRInstruction(op)
NewInsn(op) == Insn(op, << >>, << >>, Zero64, "")

opcode(i) == i.op

dests_size(i) == Len(i.dests)

srcs_size(i) == Len(i.srcs)

dest(i) == i.dests[1]

src(i, k) == i.srcs[k + 1]

get_literal(i) == i.literal

WideDestOpcodes == {"CONST_WIDE", "MOVE_WIDE", "NEG_LONG"}

dest_is_wide(i) == i.op \in WideDestOpcodes

IfOpcodes ==
  {"IF_EQ", "IF_NE", "IF_LT", "IF_GE", "IF_GT", "IF_LE",
   "IF_EQZ", "IF_NEZ", "IF_LTZ", "IF_GEZ", "IF_GTZ", "IF_LEZ"}

----------------------------------------------------------------------------
(* IEEE-754 values as reinterpret_bits yields them from the stored bits:   *)
(* [nan, neg, mag], mag the bits below the sign bit.                       *)

\* 0x7F800000: the bits of +infinity (float); larger magnitudes are NaN.
FloatInfBits == 2139095040

\* 0x7FF00000: the high word of +infinity (double).
DoubleInfHigh == 2146435072

\* Clear the sign bit of a 32-bit word.
ClearSign(w) == IF w < 0 THEN w - INT32_MIN ELSE w

reinterpret_bits(Operand, Stored, in) ==
  CASE Operand = "float" ->
         [nan |-> ClearSign(in) > FloatInfBits,
          neg |-> in < 0,
          mag |-> SignExtend(ClearSign(in))]
    [] Operand = "double" ->
         [nan |-> Lt64(<< DoubleInfHigh, 0, 0 >>, << ClearSign(in[1]), in[2], in[3] >>),
          neg |-> in[1] < 0,
          mag |-> << ClearSign(in[1]), in[2], in[3] >>]
    [] OTHER -> in

\* std::isnan; false for an integral argument.
isnan(Operand, x) == IF Operand = "int64_t" THEN FALSE ELSE x.nan

\* l_val > r_val on operands that are not NaN.
GreaterThan(Operand, l, r) ==
  IF Operand = "int64_t"
    THEN Lt64(r, l)
    ELSE LET lneg == l.neg /\ l.mag # Zero64
             rneg == r.neg /\ r.mag # Zero64
         IN IF lneg THEN rneg /\ Lt64(l.mag, r.mag)
                    ELSE rneg \/ Lt64(r.mag, l.mag)

\* l_val == r_val on operands that are not NaN.
EqualTo(Operand, l, r) ==
  IF Operand = "int64_t"
    THEN l = r
    ELSE (l.mag = Zero64 /\ r.mag = Zero64) \/ (l.neg = r.neg /\ l.mag = r.mag)

is_compare_floating(op) ==
  op \in {"CMPG_DOUBLE", "CMPL_DOUBLE", "CMPG_FLOAT", "CMPL_FLOAT"}

\* Mutant of is_less_than_bias: the cmpg opcodes are taken for the biased-low
\* ones.
is_less_than_bias_swapped(op) == op \in {"CMPG_DOUBLE", "CMPG_FLOAT"}

is_less_than_bias(op) == op \in {"CMPL_DOUBLE", "CMPL_FLOAT"}

----------------------------------------------------------------------------
(* The Instruction Analyzer.  Each transfer function yields the new        *)
(* environment and the set_top calls it made: [state, tops].               *)

Analyzed(env, tops) == [state |-> env, tops |-> tops]

TopCall(reg, is_wide) == [reg |-> reg, is_wide |-> is_wide]

analyze_compare(Operand, Stored, i, env) ==
  LET op == opcode(i)
      left == get_constant_value(env, src(i, 0), Stored)
      right == get_constant_value(env, src(i, 1), Stored)
  IN IF left.ok /\ right.ok
       THEN LET l_val == reinterpret_bits(Operand, Stored, left.value)
                r_val == reinterpret_bits(Operand, Stored, right.value)
                result ==
                  IF is_compare_floating(op)
                     /\ (isnan(Operand, l_val) \/ isnan(Operand, r_val))
                    THEN IF is_less_than_bias(op) THEN -1 ELSE 1
                    ELSE IF GreaterThan(Operand, l_val, r_val) THEN 1
                    ELSE IF EqualTo(Operand, l_val, r_val) THEN 0
                    ELSE -1
            IN Analyzed(set_narrow(env, dest(i), result), << >>)
       ELSE Analyzed(set_top(env, dest(i), FALSE), << TopCall(dest(i), FALSE) >>)

\* Mutant of addition_out_of_bounds: the upper bound is tested with >=.
addition_out_of_bounds_off_by_one(a, b) ==
  LET max == INT32_MAX
      min == INT32_MIN
  IN (b > 0 /\ a >= max - b) \/ (b < 0 /\ a < min - b)

addition_out_of_bounds(a, b) ==
  LET max == INT32_MAX
      min == INT32_MIN
  IN (b > 0 /\ a > max - b) \/ (b < 0 /\ a < min - b)

\* The lambda of analyze_instruction: boost::none as << >>, a value v as << v >>.
add_in_bounds(lit, v) ==
  IF addition_out_of_bounds(lit, v) THEN << >> ELSE << v + lit >>

\* A value_transform_t / wide_value_transform_t: identity, or add_in_bounds of lit.
Identity == [fn |-> "identity", lit |-> 0]

AddInBounds(lit) == [fn |-> "add_in_bounds", lit |-> lit]

value_transform(t, v) ==
  IF t.fn = "add_in_bounds" THEN add_in_bounds(t.lit, v) ELSE << v >>

\* Mutant of analyze_non_branch: a constant source is propagated whatever its
\* width.
analyze_non_branch_any_width(i, env, is_wide, narrow_transform, wide_transform) ==
  LET s == src(i, 0)
      dst == dest(i)
      mark_unknown == Analyzed(set_top(env, dst, is_wide), << TopCall(dst, is_wide) >>)
  IN IF is_narrow_constant(env, s)
       THEN LET option == value_transform(narrow_transform, get_narrow(env, s))
            IN IF option = << >>
                 THEN mark_unknown
                 ELSE Analyzed(set_narrow(env, dst, option[1]), << >>)
     ELSE IF is_wide_constant(env, s)
       THEN LET option == value_transform(wide_transform, get_wide(env, s))
            IN IF option = << >>
                 THEN mark_unknown
                 ELSE Analyzed(set_wide(env, dst, option[1]), << >>)
     ELSE mark_unknown

\* Mutant of analyze_non_branch: the result is written to the source register.
analyze_non_branch_writes_src(i, env, is_wide, narrow_transform, wide_transform) ==
  LET s == src(i, 0)
      dst == src(i, 0)
      mark_unknown == Analyzed(set_top(env, dst, is_wide), << TopCall(dst, is_wide) >>)
  IN IF ~is_wide /\ is_narrow_constant(env, s)
       THEN LET option == value_transform(narrow_transform, get_narrow(env, s))
            IN IF option = << >>
                 THEN mark_unknown
                 ELSE Analyzed(set_narrow(env, dst, option[1]), << >>)
     ELSE IF is_wide /\ is_wide_constant(env, s)
       THEN LET option == value_transform(wide_transform, get_wide(env, s))
            IN IF option = << >>
                 THEN mark_unknown
                 ELSE Analyzed(set_wide(env, dst, option[1]), << >>)
     ELSE mark_unknown

analyze_non_branch(i, env, is_wide, narrow_transform, wide_transform) ==
  LET s == src(i, 0)
      dst == dest(i)
      mark_unknown == Analyzed(set_top(env, dst, is_wide), << TopCall(dst, is_wide) >>)
  IN IF ~is_wide /\ is_narrow_constant(env, s)
       THEN LET option == value_transform(narrow_transform, get_narrow(env, s))
            IN IF option = << >>
                 THEN mark_unknown
                 ELSE Analyzed(set_narrow(env, dst, option[1]), << >>)
     ELSE IF is_wide /\ is_wide_constant(env, s)
       THEN LET option == value_transform(wide_transform, get_wide(env, s))
            IN IF option = << >>
                 THEN mark_unknown
                 ELSE Analyzed(set_wide(env, dst, option[1]), << >>)
     ELSE mark_unknown

\* Mutant of analyze_default: the destination is left as it was.
analyze_default_skipped(i, env) == Analyzed(env, << >>)

\* The default case of the switch, which add-int/lit falls through to.
analyze_default(i, env) ==
  IF dests_size(i) > 0
    THEN Analyzed(set_top(env, dest(i), dest_is_wide(i)),
                  << TopCall(dest(i), dest_is_wide(i)) >>)
    ELSE Analyzed(env, << >>)

analyze_instruction(config, i, env) ==
  CASE opcode(i) = "CONST" ->
         Analyzed(set_narrow(env, dest(i), Truncate32(get_literal(i))), << >>)
    [] opcode(i) = "CONST_WIDE" ->
         Analyzed(set_wide(env, dest(i), get_literal(i)), << >>)
    [] opcode(i) \in {"MOVE", "MOVE_OBJECT"} ->
         analyze_non_branch(i, env, FALSE, Identity, Identity)
    [] opcode(i) = "MOVE_WIDE" ->
         analyze_non_branch(i, env, TRUE, Identity, Identity)
    [] opcode(i) \in {"CMPL_FLOAT", "CMPG_FLOAT"} ->
         analyze_compare("float", "int32_t", i, env)
    [] opcode(i) \in {"CMPL_DOUBLE", "CMPG_DOUBLE"} ->
         analyze_compare("double", "int64_t", i, env)
    [] opcode(i) = "CMP_LONG" ->
         analyze_compare("int64_t", "int64_t", i, env)
    [] opcode(i) \in {"ADD_INT_LIT16", "ADD_INT_LIT8"} ->
         IF config.fold_arithmetic
           THEN LET lit == Truncate32(get_literal(i))
                IN analyze_non_branch(i, env, FALSE, AddInBounds(lit), Identity)
           ELSE analyze_default(i, env)
    [] OTHER -> analyze_default(i, env)

----------------------------------------------------------------------------
(* The Branch Feasibility Evaluator.  boost::optional<bool> is "none",     *)
(* "true" (always taken) or "false" (never taken); "abort" is the failed   *)
(* always_assert_log of the default case.                                  *)

Optional(b) == IF b THEN "true" ELSE "false"

\* Mutant of eval_if_eq: one exact constant is enough to compare.
eval_if_eq_either(op, scd_left, scd_right) ==
  IF ~(is_value(scd_left) \/ is_value(scd_right))
    THEN "none"
    ELSE IF op \in {"IF_EQ", "IF_EQZ"}
           THEN Optional(constant(scd_left) = constant(scd_right))
           ELSE Optional(constant(scd_left) # constant(scd_right))

\* Mutant of eval_if_eq: a failed comparison of two constants is reported as
\* undetermined instead of never taken.
eval_if_eq_undetermined(op, scd_left, scd_right) ==
  IF ~(is_value(scd_left) /\ is_value(scd_right))
    THEN "none"
    ELSE IF op \in {"IF_EQ", "IF_EQZ"}
           THEN IF constant(scd_left) = constant(scd_right) THEN "true" ELSE "none"
           ELSE IF constant(scd_left) # constant(scd_right) THEN "true" ELSE "none"

\* case OPCODE_IF_EQ, OPCODE_IF_NE, OPCODE_IF_EQZ, OPCODE_IF_NEZ
eval_if_eq(op, scd_left, scd_right) ==
  IF ~(is_value(scd_left) /\ is_value(scd_right))
    THEN "none"
    ELSE IF op \in {"IF_EQ", "IF_EQZ"}
           THEN Optional(constant(scd_left) = constant(scd_right))
           ELSE Optional(constant(scd_left) # constant(scd_right))

\* case OPCODE_IF_LE, OPCODE_IF_LEZ
eval_if_le(scd_left, scd_right) ==
  IF Le64(max_element(scd_left), min_element(scd_right)) THEN "true"
  ELSE IF Lt64(max_element(scd_right), min_element(scd_left)) THEN "false"
  ELSE "none"

\* Mutant of eval_if_lt: the bounds are compared as in the less-or-equal case.
eval_if_lt_as_le(scd_left, scd_right) ==
  IF Le64(max_element(scd_left), min_element(scd_right)) THEN "true"
  ELSE IF Lt64(max_element(scd_right), min_element(scd_left)) THEN "false"
  ELSE "none"

\* case OPCODE_IF_LT, OPCODE_IF_LTZ
eval_if_lt(scd_left, scd_right) ==
  IF Lt64(max_element(scd_left), min_element(scd_right)) THEN "true"
  ELSE IF Le64(max_element(scd_right), min_element(scd_left)) THEN "false"
  ELSE "none"

\* Mutant of eval_if_ge: the bounds are compared as in the greater-than case.
eval_if_ge_as_gt(scd_left, scd_right) ==
  IF Lt64(max_element(scd_right), min_element(scd_left)) THEN "true"
  ELSE IF Le64(max_element(scd_left), min_element(scd_right)) THEN "false"
  ELSE "none"

\* case OPCODE_IF_GE, OPCODE_IF_GEZ
eval_if_ge(scd_left, scd_right) ==
  IF Le64(max_element(scd_right), min_element(scd_left)) THEN "true"
  ELSE IF Lt64(max_element(scd_left), min_element(scd_right)) THEN "false"
  ELSE "none"

\* case OPCODE_IF_GT, OPCODE_IF_GTZ
eval_if_gt(scd_left, scd_right) ==
  IF Lt64(max_element(scd_right), min_element(scd_left)) THEN "true"
  ELSE IF Le64(max_element(scd_left), min_element(scd_right)) THEN "false"
  ELSE "none"

\* The switch of eval_if, reached when the environment is not bottom.
eval_if_switch(insn, state) ==
  LET op == opcode(insn)
      scd_left == get(state, src(insn, 0))
      scd_right == IF srcs_size(insn) > 1
                     THEN get(state, src(insn, 1))
                     ELSE NarrowConstant(0)
  IN CASE op \in {"IF_EQ", "IF_NE", "IF_EQZ", "IF_NEZ"} -> eval_if_eq(op, scd_left, scd_right)
       [] op \in {"IF_LE", "IF_LEZ"} -> eval_if_le(scd_left, scd_right)
       [] op \in {"IF_LT", "IF_LTZ"} -> eval_if_lt(scd_left, scd_right)
       [] op \in {"IF_GE", "IF_GEZ"} -> eval_if_ge(scd_left, scd_right)
       [] op \in {"IF_GT", "IF_GTZ"} -> eval_if_gt(scd_left, scd_right)
       [] OTHER -> "abort"

\* Mutant of eval_if: the unreachability test is missing.
eval_if_ignoring_bottom(insn, state) == eval_if_switch(insn, state)

eval_if(insn, state) ==
  IF is_bottom(state) THEN "none" ELSE eval_if_switch(insn, state)

----------------------------------------------------------------------------
(* The Rewriter.  Its state is the replacement list and the two counters;  *)
(* eval records what eval_if returned ("n/a" when it was not called).      *)

Rewriter(repl, branches, consts, eval) ==
  [m_insn_replacements |-> repl, m_branch_propagated |-> branches,
   m_materialized_consts |-> consts, eval |-> eval]

\* One element of m_insn_replacements: std::pair<IRInstruction*, IRInstruction*>.
Replacement(original, replacement) == [orig |-> original, repl |-> replacement]

\* Mutant of simplify_branch: the two replacement opcodes are exchanged.
simplify_branch_swapped(rw, i, state) ==
  LET constant_branch == eval_if(i, state)
  IN IF constant_branch \notin {"true", "false"}
       THEN Rewriter(rw.m_insn_replacements, rw.m_branch_propagated,
                     rw.m_materialized_consts, constant_branch)
       ELSE Rewriter(
              Append(rw.m_insn_replacements,
                     Replacement(i, NewInsn(IF constant_branch = "true"
                                              THEN "NOP" ELSE "GOTO"))),
              rw.m_branch_propagated + 1,
              rw.m_materialized_consts,
              constant_branch)

simplify_branch(rw, i, state) ==
  LET constant_branch == eval_if(i, state)
  IN IF constant_branch \notin {"true", "false"}
       THEN Rewriter(rw.m_insn_replacements, rw.m_branch_propagated,
                     rw.m_materialized_consts, constant_branch)
       ELSE Rewriter(
              Append(rw.m_insn_replacements,
                     Replacement(i, NewInsn(IF constant_branch = "true"
                                              THEN "GOTO" ELSE "NOP"))),
              rw.m_branch_propagated + 1,
              rw.m_materialized_consts,
              constant_branch)

\* Mutant of simplify_non_branch: the value is read from the source register.
simplify_non_branch_reads_src(rw, i, state, is_wide) ==
  LET dst == dest(i)
      s == src(i, 0)
      Emit(op, value) ==
        Rewriter(
          Append(rw.m_insn_replacements,
                 Replacement(i, Insn(op, << dst >>, << >>, value, ""))),
          rw.m_branch_propagated,
          rw.m_materialized_consts + 1,
          rw.eval)
  IN IF ~is_wide /\ is_narrow_constant(state, s)
       THEN Emit("CONST", SignExtend(get_narrow(state, s)))
     ELSE IF is_wide /\ is_wide_constant(state, s)
       THEN Emit("CONST_WIDE", get_wide(state, s))
     ELSE rw

\* Mutant of simplify_non_branch: the branches-folded counter is the one
\* incremented.
simplify_non_branch_counts_branch(rw, i, state, is_wide) ==
  LET dst == dest(i)
      Emit(op, value) ==
        Rewriter(
          Append(rw.m_insn_replacements,
                 Replacement(i, Insn(op, << dst >>, << >>, value, ""))),
          rw.m_branch_propagated + 1,
          rw.m_materialized_consts,
          rw.eval)
  IN IF ~is_wide /\ is_narrow_constant(state, dst)
       THEN Emit("CONST", SignExtend(get_narrow(state, dst)))
     ELSE IF is_wide /\ is_wide_constant(state, dst)
       THEN Emit("CONST_WIDE", get_wide(state, dst))
     ELSE rw

simplify_non_branch(rw, i, state, is_wide) ==
  LET dst == dest(i)
      Emit(op, value) ==
        Rewriter(
          Append(rw.m_insn_replacements,
                 Replacement(i, Insn(op, << dst >>, << >>, value, ""))),
          rw.m_branch_propagated,
          rw.m_materialized_consts + 1,
          rw.eval)
  IN IF ~is_wide /\ is_narrow_constant(state, dst)
       THEN Emit("CONST", SignExtend(get_narrow(state, dst)))
     ELSE IF is_wide /\ is_wide_constant(state, dst)
       THEN Emit("CONST_WIDE", get_wide(state, dst))
     ELSE rw

\* Mutant of simplify_instruction: the default case hands the instruction to
\* simplify_branch.
simplify_instruction_default_branch(config, rw, i, state) ==
  CASE opcode(i) = "MOVE" ->
         IF config.replace_moves_with_consts
           THEN simplify_non_branch(rw, i, state, FALSE) ELSE rw
    [] opcode(i) = "MOVE_WIDE" ->
         IF config.replace_moves_with_consts
           THEN simplify_non_branch(rw, i, state, TRUE) ELSE rw
    [] opcode(i) \in IfOpcodes -> simplify_branch(rw, i, state)
    [] opcode(i) \in {"ADD_INT_LIT16", "ADD_INT_LIT8"} ->
         IF config.fold_arithmetic
           THEN simplify_non_branch(rw, i, state, FALSE) ELSE rw
    [] OTHER -> simplify_branch(rw, i, state)

simplify_instruction(config, rw, i, state) ==
  CASE opcode(i) = "MOVE" ->
         IF config.replace_moves_with_consts
           THEN simplify_non_branch(rw, i, state, FALSE) ELSE rw
    [] opcode(i) = "MOVE_WIDE" ->
         IF config.replace_moves_with_consts
           THEN simplify_non_branch(rw, i, state, TRUE) ELSE rw
    [] opcode(i) \in IfOpcodes -> simplify_branch(rw, i, state)
    [] opcode(i) \in {"ADD_INT_LIT16", "ADD_INT_LIT8"} ->
         IF config.fold_arithmetic
           THEN simplify_non_branch(rw, i, state, FALSE) ELSE rw
    [] OTHER -> rw

\* Mutant of simplified_inst: a recorded replacement is also written over the
\* instruction in the stream.
simplified_inst_in_place(config, rw, i, state) ==
  LET after == simplify_instruction(config, rw, i, state).m_insn_replacements
  IN IF Len(after) > Len(rw.m_insn_replacements)
       THEN [i EXCEPT !.op = after[Len(after)].repl.op,
                      !.literal = after[Len(after)].repl.literal]
       ELSE i

\* What simplify_instruction leaves behind its parameter IRInstruction*& inst:
\* no case assigns the reference or calls a setter of the instruction, the
\* replacements are new IRInstruction objects.
simplified_inst(config, rw, i, state) == i

----------------------------------------------------------------------------
(* The instructions the driver feeds.                                      *)

Const(d, n) == Insn("CONST", << d >>, << >>, SignExtend(n), "")

ConstWide(d, x) == Insn("CONST_WIDE", << d >>, << >>, x, "")

Unary(op, d, s) == Insn(op, << d >>, << s >>, Zero64, "")

AddLit(op, d, s, n) == Insn(op, << d >>, << s >>, SignExtend(n), "")

Cmp(op, d, a, b) == Insn(op, << d >>, << a, b >>, Zero64, "")

If2(op, a, b) == Insn(op, << >>, << a, b >>, Zero64, "L")

If1(op, a) == Insn(op, << >>, << a >>, Zero64, "L")

Nop == NewInsn("NOP")

MoveOpcodes == {"MOVE", "MOVE_OBJECT", "MOVE_WIDE"}

CmpOpcodes == {"CMPL_FLOAT", "CMPG_FLOAT", "CMPL_DOUBLE", "CMPG_DOUBLE", "CMP_LONG"}

AddOpcodes == {"ADD_INT_LIT16", "ADD_INT_LIT8"}

If2Opcodes == {"IF_EQ", "IF_NE", "IF_LT", "IF_GE", "IF_GT", "IF_LE"}

If1Opcodes == IfOpcodes \ If2Opcodes

\* Bit patterns of float constants: +0.0, -0.0, 1.0, -1.0, +inf, NaN, -NaN.
FloatBits == {0, INT32_MIN, 1065353216, -1082130432, FloatInfBits, 2143289344, -4194304}

\* Narrow constants at and next to the ends of the signed 32-bit range.
EdgeInts == {INT32_MIN + 1, INT32_MAX - 1, INT32_MAX}

\* Bit patterns of double constants: +0.0, -0.0, 1.0, +inf, a NaN whose payload
\* lies in the low word only, the all-ones-mantissa NaN, -1.0.
DoubleBits ==
  {Zero64, INT64_MIN, << 1072693248, 0, 0 >>, << DoubleInfHigh, 0, 0 >>,
   << DoubleInfHigh, 0, 1 >>, INT64_MAX, << -1074790400, 0, 0 >>}

\* The instructions of a block scanned from a fresh environment.
ScanInsns ==
  {Const(d, n) : d \in Regs, n \in {3, 10, 20, INT32_MAX}}
    \cup {ConstWide(1, x) : x \in {INT64_MIN, INT64_MAX, SignExtend(3)}}
    \cup {Unary(op, 1, 0) : op \in MoveOpcodes}
    \cup {Unary("MOVE", 0, 0), Unary("MOVE_WIDE", 0, 1)}
    \cup {AddLit(op, 0, 0, n) : op \in AddOpcodes, n \in {1, -1}}
    \cup {AddLit("ADD_INT_LIT8", 1, 0, 1)}
    \cup {Cmp("CMP_LONG", 0, 1, 1), Cmp("CMPL_FLOAT", 1, 0, 0)}
    \cup {Unary("NEG_INT", 0, 0), Unary("NEG_LONG", 1, 1), Nop}
    \cup {If2(op, 0, 1) : op \in If2Opcodes}
    \cup {If1(op, 0) : op \in If1Opcodes}

\* The instructions of a block whose stream is recorded.
RunInsns ==
  {Const(0, 10), Const(1, 20), Const(0, 3), Const(1, 3), Const(0, INT32_MAX)}
    \cup {ConstWide(1, INT64_MIN), ConstWide(0, SignExtend(3))}
    \cup {Unary(op, 1, 0) : op \in MoveOpcodes}
    \cup {AddLit("ADD_INT_LIT8", 0, 0, 1), AddLit("ADD_INT_LIT16", 1, 0, -1)}
    \cup {Cmp("CMP_LONG", 0, 0, 1), Cmp("CMPG_FLOAT", 1, 0, 1)}
    \cup {Unary("NEG_INT", 0, 0), Nop}
    \cup {If2("IF_LT", 0, 1), If2("IF_EQ", 0, 1), If2("IF_GE", 1, 0),
          If1("IF_NEZ", 0), If1("IF_LEZ", 1)}

\* The instructions applied to an arbitrary entry environment.
EntryInsns ==
  {Const(d, 5) : d \in Regs}
    \cup {ConstWide(d, SignExtend(5)) : d \in Regs}
    \cup {Unary(op, d, s) : op \in MoveOpcodes, d \in Regs, s \in Regs}
    \cup {AddLit(op, d, 0, n) : op \in AddOpcodes, d \in Regs, n \in {-32768, -1, 0, 1, 32767}}
    \cup {Cmp(op, d, 0, 1) : op \in CmpOpcodes, d \in Regs}
    \cup {Unary("NEG_INT", d, 0) : d \in Regs}
    \cup {Unary("NEG_LONG", d, 0) : d \in Regs}
    \cup {Nop}
    \cup {If2(op, 0, 1) : op \in If2Opcodes}
    \cup {If1(op, 0) : op \in If1Opcodes}

\* The abstract values an entry environment may bind a register to.
EntryValues ==
  {Top,
   Interval(INT64_MIN, SignExtend(-1)), Interval(INT64_MIN, Zero64),
   Interval(Zero64, INT64_MAX), Interval(SignExtend(1), INT64_MAX)}
    \cup {NarrowConstant(n) : n \in FloatBits \cup EdgeInts \cup {5}}
    \cup {WideConstant(x) : x \in DoubleBits \cup {SignExtend(5)}}

Configs == [fold_arithmetic : BOOLEAN, replace_moves_with_consts : BOOLEAN]

AllTop == [r \in Regs |-> Top]

\* The entry environments: every binding of the registers when reachable, and
\* a few bindings under the unreachability flag.
EntryEnvironments ==
  {Environment(FALSE, f) : f \in [Regs -> EntryValues]}
    \cup {Environment(TRUE, f) :
            f \in [Regs -> {Top, NarrowConstant(5), WideConstant(SignExtend(5))}]}

\* Opcodes with a transfer function of their own under configuration config.
HandledOpcodes(config) ==
  {"CONST", "CONST_WIDE"} \cup MoveOpcodes \cup CmpOpcodes
    \cup (IF config.fold_arithmetic THEN AddOpcodes ELSE {})

----------------------------------------------------------------------------
(* Concrete execution of the instructions of a block: a register holds a   *)
(* narrow (32-bit) or a wide (64-bit) value, kept as its 64-bit sign       *)
(* extension, and an instruction is executable when the registers it reads *)
(* hold values of the width it reads.                                      *)

NarrowValue(n) == [wide |-> FALSE, bits |-> SignExtend(n)]

WideValue(x) == [wide |-> TRUE, bits |-> x]

\* The 32-bit value of a narrow register.
Int32(v) == Truncate32(v.bits)

\* a + b modulo 2^32 as a signed 32-bit integer, added limb by limb.
WrappingAdd(a, b) ==
  LET lo == (a % Limb) + (b % Limb)
      hi == (a \div Limb) + (b \div Limb) + (lo \div Limb)
      top == ((hi + Limb \div 2) % Limb) - Limb \div 2
  IN top * Limb + (lo % Limb)

\* -a modulo 2^32.
WrappingNeg(a) == IF a = INT32_MIN THEN a ELSE -a

\* A float that is not a NaN, given by its bits, as an integer of the same
\* order: the magnitude, negated under the sign bit.
FloatKey(n) == IF n < 0 THEN INT32_MIN - n ELSE n

FloatIsNaN(n) == FloatKey(n) > FloatInfBits \/ FloatKey(n) < -FloatInfBits

\* The result of cmp-long and of cmpl-float and cmpg-float.
Compared(op, l, r) ==
  IF op = "CMP_LONG"
    THEN IF Lt64(l.bits, r.bits) THEN -1 ELSE IF l.bits = r.bits THEN 0 ELSE 1
    ELSE IF FloatIsNaN(Int32(l)) \/ FloatIsNaN(Int32(r))
           THEN IF op = "CMPL_FLOAT" THEN -1 ELSE 1
         ELSE IF FloatKey(Int32(l)) < FloatKey(Int32(r)) THEN -1
         ELSE IF FloatKey(Int32(l)) = FloatKey(Int32(r)) THEN 0
         ELSE 1

\* The condition of a conditional branch on the 32-bit values l and r.
Condition(op, l, r) ==
  CASE op \in {"IF_EQ", "IF_EQZ"} -> l = r
    [] op \in {"IF_NE", "IF_NEZ"} -> l # r
    [] op \in {"IF_LT", "IF_LTZ"} -> l < r
    [] op \in {"IF_GE", "IF_GEZ"} -> l >= r
    [] op \in {"IF_GT", "IF_GTZ"} -> l > r
    [] op \in {"IF_LE", "IF_LEZ"} -> l <= r

\* The opcodes that read wide registers.
WideSrcOpcodes == {"MOVE_WIDE", "CMP_LONG"}

\* The opcodes the concrete execution covers.
ExecutableOpcodes ==
  {"CONST", "CONST_WIDE", "NEG_INT", "NOP", "CMP_LONG", "CMPL_FLOAT", "CMPG_FLOAT"}
    \cup MoveOpcodes \cup AddOpcodes \cup IfOpcodes

Executable(i, rf) ==
  /\ opcode(i) \in ExecutableOpcodes
  /\ \A k \in 1..srcs_size(i) : rf[i.srcs[k]].wide = (opcode(i) \in WideSrcOpcodes)

\* The registers after the instruction.
Execute(i, rf) ==
  LET op == opcode(i)
      Write(v) == [rf EXCEPT ![dest(i)] = v]
  IN CASE op = "CONST" -> Write(NarrowValue(Truncate32(get_literal(i))))
       [] op = "CONST_WIDE" -> Write(WideValue(get_literal(i)))
       [] op \in MoveOpcodes -> Write(rf[src(i, 0)])
       [] op \in AddOpcodes ->
            Write(NarrowValue(WrappingAdd(Int32(rf[src(i, 0)]), Truncate32(get_literal(i)))))
       [] op \in {"CMP_LONG", "CMPL_FLOAT", "CMPG_FLOAT"} ->
            Write(NarrowValue(Compared(op, rf[src(i, 0)], rf[src(i, 1)])))
       [] op = "NEG_INT" -> Write(NarrowValue(WrappingNeg(Int32(rf[src(i, 0)]))))
       [] OTHER -> rf

\* Whether the instruction, a conditional branch, jumps: "yes" or "no"; "n/a"
\* for any other instruction.
Taken(i, rf) ==
  IF opcode(i) \notin IfOpcodes THEN "n/a"
  ELSE IF Condition(opcode(i), Int32(rf[src(i, 0)]),
                    IF srcs_size(i) > 1 THEN Int32(rf[src(i, 1)]) ELSE 0)
         THEN "yes" ELSE "no"

\* The registers a concrete execution may start with.
RunRegfiles == [Regs -> {NarrowValue(-1), NarrowValue(20), WideValue(INT64_MIN)}]

\* The registers where no concrete execution is followed.
NoRegfile == [r \in Regs |-> NarrowValue(0)]

----------------------------------------------------------------------------
(* The state machine.                                                      *)

InitRewriter ==
  /\ m_insn_replacements = << >>
  /\ m_branch_propagated = 0
  /\ m_materialized_consts = 0
  /\ inst = << >>
  /\ phase = "analyze"
  /\ scanned = 0
  /\ unproven = Regs
  /\ branch_result = "n/a"
  /\ top_call = << >>
  /\ block = << >>
  /\ regfile_before = regfile
  /\ taken = "n/a"

\* A block entered with the fresh environment, or an unreachable block.
Init ==
  /\ m_config \in Configs
  /\ current_state \in {Environment(b, AllTop) : b \in BOOLEAN}
  /\ pre_state = current_state
  /\ fresh = ~is_bottom(current_state)
  /\ regfile = NoRegfile
  /\ InitRewriter

\* A block entered with an environment the global analysis supplies.
InitEntry ==
  /\ m_config \in Configs
  /\ current_state \in EntryEnvironments
  /\ pre_state = current_state
  /\ fresh = (current_state = Environment(FALSE, AllTop))
  /\ regfile = NoRegfile
  /\ InitRewriter

\* analyze_instruction called on instruction i.
Analyze(i) ==
  /\ phase = "analyze"
  /\ LET r == analyze_instruction(m_config, i, current_state)
     IN /\ inst' = << i >>
        /\ pre_state' = current_state
        /\ current_state' = r.state
        /\ top_call' = r.tops
        /\ unproven' = IF dests_size(i) > 0 /\ opcode(i) \in HandledOpcodes(m_config)
                         THEN unproven \ {dest(i)} ELSE unproven
  /\ phase' = "simplify"
  /\ scanned' = scanned + 1
  /\ branch_result' = "n/a"
  /\ UNCHANGED <<m_config, m_insn_replacements, m_branch_propagated,
                 m_materialized_consts, fresh>>

\* simplify_instruction called on the analyzed instruction and the environment
\* after it; the block ends after limit instructions.
Simplify(limit) ==
  /\ phase = "simplify"
  /\ LET before == Rewriter(m_insn_replacements, m_branch_propagated,
                            m_materialized_consts, "n/a")
         rw == simplify_instruction(m_config, before, inst[1], current_state)
     IN /\ m_insn_replacements' = rw.m_insn_replacements
        /\ m_branch_propagated' = rw.m_branch_propagated
        /\ m_materialized_consts' = rw.m_materialized_consts
        /\ branch_result' = rw.eval
        /\ inst' = << simplified_inst(m_config, before, inst[1], current_state) >>
  /\ phase' = IF scanned < limit THEN "analyze" ELSE "done"
  /\ UNCHANGED <<m_config, current_state, pre_state, scanned, fresh,
                 unproven, top_call>>

\* The driver hands the next instruction, one of insns, to analyze_instruction.
AnalyzeInstruction(insns) ==
  /\ \E i \in insns : Analyze(i)
  /\ UNCHANGED <<block, regfile, regfile_before, taken>>

\* The driver hands the analyzed instruction and the environment after it to
\* simplify_instruction.
SimplifyInstruction(limit) ==
  /\ Simplify(limit)
  /\ UNCHANGED <<block, regfile, regfile_before, taken>>

\* The same two calls with the stream of the block recorded and the block
\* executed alongside: the driver advances to the next instruction of the
\* stream, an instruction the registers allow to execute, and analyzes it ...
RunAnalyzeInstruction ==
  /\ \E i \in RunInsns :
       /\ Executable(i, regfile)
       /\ Analyze(i)
       /\ regfile' = Execute(i, regfile)
       /\ taken' = Taken(i, regfile)
  /\ regfile_before' = regfile
  /\ block' = Append(block, inst'[1])

\* ... and simplify_instruction is handed a reference to that instruction.
RunSimplifyInstruction ==
  /\ Simplify(MaxRunLen)
  /\ block' = [block EXCEPT ![Len(block)] = inst'[1]]
  /\ UNCHANGED <<regfile, regfile_before, taken>>

Next == AnalyzeInstruction(ScanInsns) \/ SimplifyInstruction(MaxBlockLen)

Spec == Init /\ [][Next]_vars

NextEntry == AnalyzeInstruction(EntryInsns) \/ SimplifyInstruction(1)

SpecEntry == InitEntry /\ [][NextEntry]_vars

\* A block scanned from the fresh environment, its stream recorded.
InitRun ==
  /\ m_config \in Configs
  /\ current_state = Environment(FALSE, AllTop)
  /\ pre_state = current_state
  /\ fresh = TRUE
  /\ regfile \in RunRegfiles
  /\ InitRewriter

NextRun == RunAnalyzeInstruction \/ RunSimplifyInstruction

SpecRun == InitRun /\ [][NextRun]_vars

----------------------------------------------------------------------------
(* Properties.                                                             *)

\* simplify_instruction has returned for the instruction in inst.
Simplified == inst # << >> /\ phase \in {"analyze", "done"}

CurOp == inst[1].op

\* The two sides of the branch in inst: the right side of a zero-compared form
\* is the exact constant 0.
LeftSide == current_state.regs[inst[1].srcs[1]]

RightSide ==
  IF Len(inst[1].srcs) > 1 THEN current_state.regs[inst[1].srcs[2]]
                           ELSE [kind |-> "narrow", min |-> Zero64, max |-> Zero64]

OrderingOpcodes ==
  {"IF_LT", "IF_LE", "IF_GT", "IF_GE", "IF_LTZ", "IF_LEZ", "IF_GTZ", "IF_GEZ"}

AlwaysTaken(op, l, r) ==
  CASE op \in {"IF_LT", "IF_LTZ"} -> Lt64(l.max, r.min)
    [] op \in {"IF_LE", "IF_LEZ"} -> Le64(l.max, r.min)
    [] op \in {"IF_GT", "IF_GTZ"} -> ~Le64(l.min, r.max)
    [] op \in {"IF_GE", "IF_GEZ"} -> ~Lt64(l.min, r.max)

NeverTaken(op, l, r) ==
  CASE op \in {"IF_LT", "IF_LTZ"} -> ~Lt64(l.min, r.max)
    [] op \in {"IF_LE", "IF_LEZ"} -> ~Le64(l.min, r.max)
    [] op \in {"IF_GT", "IF_GTZ"} -> Le64(l.max, r.min)
    [] op \in {"IF_GE", "IF_GEZ"} -> Lt64(l.max, r.min)

Five == [kind |-> "narrow", min |-> << 0, 0, 5 >>, max |-> << 0, 0, 5 >>]

\* C1: for an ordering branch in a non-bottom environment eval_if answers
\* from the interval bounds of the two sides: less-than is always taken iff
\* left.max < right.min and never taken iff left.min >= right.max;
\* less-or-equal always iff left.max <= right.min, never iff
\* left.min > right.max; greater-than always iff left.min > right.max, never
\* iff left.max <= right.min; greater-or-equal always iff
\* left.min >= right.max, never iff left.max < right.min; undetermined
\* otherwise.  For [5,5] against [5,5]: less-than and greater-than never
\* taken, less-or-equal and greater-or-equal always taken.
C1_OrderingBranches ==
  (Simplified /\ CurOp \in OrderingOpcodes /\ ~current_state.bottom) =>
    /\ (branch_result = "true") <=> AlwaysTaken(CurOp, LeftSide, RightSide)
    /\ (branch_result = "false") <=> NeverTaken(CurOp, LeftSide, RightSide)
    /\ (branch_result = "none") <=>
         (~AlwaysTaken(CurOp, LeftSide, RightSide) /\ ~NeverTaken(CurOp, LeftSide, RightSide))
    /\ (LeftSide = Five /\ RightSide = Five) =>
         branch_result = (IF CurOp \in {"IF_LT", "IF_GT"} THEN "false" ELSE "true")

\* C1 witness: if-lt on [5,5] against [5,5] was classified never taken.
C1_Witness ==
  /\ Simplified /\ ~current_state.bottom
  /\ CurOp = "IF_LT"
  /\ LeftSide = Five /\ RightSide = Five
  /\ branch_result = "false"

EqualityOpcodes == {"IF_EQ", "IF_EQZ"}

InequalityOpcodes == {"IF_NE", "IF_NEZ"}

BothExact(l, r) == l.kind \in {"narrow", "wide"} /\ r.kind \in {"narrow", "wide"}

\* The branch condition on two exact constants.
ConditionHolds(op, l, r) ==
  IF op \in EqualityOpcodes THEN l.min = r.min ELSE l.min # r.min

\* C2 as stated: an equality or inequality branch in a non-bottom environment
\* is always taken iff both sides are exact constants that are equal (unequal
\* for inequality), and undetermined in every other case.
C2_AsStated ==
  (Simplified /\ CurOp \in EqualityOpcodes \cup InequalityOpcodes
     /\ ~current_state.bottom) =>
    IF BothExact(LeftSide, RightSide) /\ ConditionHolds(CurOp, LeftSide, RightSide)
      THEN branch_result = "true"
      ELSE branch_result = "none"

\* C2 amended: an equality or inequality branch in a non-bottom environment
\* is always taken iff both sides are exact constants and the condition holds
\* of them, never taken iff both sides are exact constants and the condition
\* fails, and undetermined iff a side is not an exact constant.
C2_EqualityBranches ==
  (Simplified /\ CurOp \in EqualityOpcodes \cup InequalityOpcodes
     /\ ~current_state.bottom) =>
    /\ (branch_result = "true") <=>
         (BothExact(LeftSide, RightSide) /\ ConditionHolds(CurOp, LeftSide, RightSide))
    /\ (branch_result = "false") <=>
         (BothExact(LeftSide, RightSide) /\ ~ConditionHolds(CurOp, LeftSide, RightSide))
    /\ (branch_result = "none") <=> ~BothExact(LeftSide, RightSide)

\* C2 witness: if-eq on the constants 5 and 0 was classified never taken.
C2_Witness ==
  /\ Simplified /\ ~current_state.bottom
  /\ CurOp = "IF_EQ"
  /\ LeftSide = Five
  /\ RightSide = [kind |-> "narrow", min |-> Zero64, max |-> Zero64]
  /\ branch_result = "false"

\* The register an instruction reads first, before and after the analysis,
\* and the register it writes.
SourceBefore == pre_state.regs[inst[1].srcs[1]]

DestAfter == current_state.regs[inst[1].dests[1]]

TopValue ==
  [kind |-> "top", min |-> << INT32_MIN, 0, 0 >>, max |-> << INT32_MAX, 65535, 65535 >>]

\* floor((a + b) / 2), computed without leaving the 32-bit range.
HalfSum(a, b) == (a \div 2) + (b \div 2) + (((a % 2) + (b % 2)) \div 2)

\* a + b lies within the signed 32-bit range.
SumInRange(a, b) ==
  /\ HalfSum(a, b) <= INT32_MAX \div 2
  /\ HalfSum(a, b) >= INT32_MIN \div 2

\* C3: with fold_arithmetic enabled, an add-with-immediate whose source holds
\* the exact narrow constant a, with immediate b, sets the destination to the
\* exact narrow constant a + b when a + b lies within the signed 32-bit
\* range and to Top when it does not (never to a wrapped value); a source
\* that is not an exact narrow constant gives Top.
C3_FoldAddImmediate ==
  (inst # << >> /\ CurOp \in AddOpcodes /\ m_config.fold_arithmetic) =>
    LET a == Truncate32(SourceBefore.min)
        b == Truncate32(inst[1].literal)
    IN IF SourceBefore.kind = "narrow" /\ SumInRange(a, b)
         THEN DestAfter = NarrowConstant(a + b)
         ELSE DestAfter = TopValue

\* C3 witness: INT32_MAX + 1 was folded to Top.
C3_Witness ==
  /\ inst # << >> /\ CurOp \in AddOpcodes /\ m_config.fold_arithmetic
  /\ SourceBefore.kind = "narrow"
  /\ Truncate32(SourceBefore.min) = INT32_MAX
  /\ Truncate32(inst[1].literal) = 1
  /\ DestAfter = TopValue

\* C3 second witness state: an in-range sum at the upper end was folded.
C3_WitnessInRange ==
  /\ inst # << >> /\ CurOp \in AddOpcodes /\ m_config.fold_arithmetic
  /\ SourceBefore.kind = "narrow"
  /\ Truncate32(SourceBefore.min) = INT32_MAX - 1
  /\ Truncate32(inst[1].literal) = 1
  /\ DestAfter = NarrowConstant(INT32_MAX)

\* A step of simplify_instruction.
SimplifyStep == phase = "simplify" /\ phase' # "simplify"

\* The step appends exactly the pair (instruction in inst, replacement).
Records(replacement) ==
  m_insn_replacements' =
    Append(m_insn_replacements, [orig |-> inst[1], repl |-> replacement])

RecordsNothing == m_insn_replacements' = m_insn_replacements

Plain(op) ==
  [op |-> op, dests |-> << >>, srcs |-> << >>, literal |-> Zero64, target |-> ""]

Narrow(n) == [kind |-> "narrow", min |-> << 0, 0, n >>, max |-> << 0, 0, n >>]

ScenarioA ==
  /\ ~current_state.bottom
  /\ current_state.regs[0] = Narrow(10) /\ current_state.regs[1] = Narrow(20)
  /\ CurOp = "IF_LT" /\ inst[1].srcs = << 0, 1 >>

ScenarioD ==
  /\ ~current_state.bottom
  /\ current_state.regs[0] = Narrow(3) /\ current_state.regs[1] = Narrow(3)
  /\ CurOp = "IF_EQ" /\ inst[1].srcs = << 0, 1 >>

\* C4: simplify_branch records the pair (branch, unconditional jump) when the
\* branch is classified always taken, the jump keeping the branch's target
\* through the pair; the pair (branch, no-op) when it is classified never
\* taken; and nothing when it is undetermined.  [const v0 10; const v1 20;
\* if-lt v0, v1] and [const v0 3; const v1 3; if-eq v0, v1] both give the jump.
C4_BranchRewrite ==
  [][(SimplifyStep /\ CurOp \in IfOpcodes) =>
       /\ branch_result' = "true" =>
            Records(Plain("GOTO")) /\ inst[1].target = "L"
       /\ branch_result' = "false" => Records(Plain("NOP"))
       /\ branch_result' \notin {"true", "false"} => RecordsNothing
       /\ (ScenarioA \/ ScenarioD) => Records(Plain("GOTO"))]_vars

\* C4 witness: the if-lt of [const v0 10; const v1 20; if-lt v0, v1] was
\* replaced by a jump.
C4_Witness ==
  /\ Simplified /\ ScenarioA /\ scanned = 3
  /\ m_insn_replacements = << [orig |-> inst[1], repl |-> Plain("GOTO")] >>
  /\ inst[1].target = "L"

\* The width an instruction writes, as the kind of an exact constant.
WidthKind(op) == IF op = "MOVE_WIDE" THEN "wide" ELSE "narrow"

LiteralLoad ==
  [op |-> IF CurOp = "MOVE_WIDE" THEN "CONST_WIDE" ELSE "CONST",
   dests |-> inst[1].dests, srcs |-> << >>, literal |-> DestAfter.min, target |-> ""]

CopyOpcodes == {"MOVE", "MOVE_OBJECT", "MOVE_WIDE"}

AddImmediateOpcodes == {"ADD_INT_LIT8", "ADD_INT_LIT16"}

\* C5 as stated: for a register copy (move, move-object, move-wide) with
\* replace_moves_with_consts, or an add-with-immediate with fold_arithmetic,
\* simplify_instruction records a literal load of the destination's value iff
\* the destination holds an exact constant of the instruction's width after
\* the analysis; with the option disabled nothing is recorded.
C5_AsStated ==
  [][(SimplifyStep /\ CurOp \in CopyOpcodes \cup AddImmediateOpcodes) =>
       LET enabled == IF CurOp \in AddImmediateOpcodes
                        THEN m_config.fold_arithmetic
                        ELSE m_config.replace_moves_with_consts
       IN IF enabled /\ DestAfter.kind = WidthKind(CurOp)
            THEN Records(LiteralLoad)
            ELSE RecordsNothing]_vars

\* C5 amended: the same for move, move-wide and add-with-immediate; for
\* move-object nothing is ever recorded.
C5_Materialize ==
  [][(SimplifyStep /\ CurOp \in CopyOpcodes \cup AddImmediateOpcodes) =>
       LET enabled == IF CurOp \in AddImmediateOpcodes
                        THEN m_config.fold_arithmetic
                        ELSE m_config.replace_moves_with_consts /\ CurOp # "MOVE_OBJECT"
       IN IF enabled /\ DestAfter.kind = WidthKind(CurOp)
            THEN Records(LiteralLoad)
            ELSE RecordsNothing]_vars

\* C5 witness: [const v0 10; add-int/lit v0, v0, 1] with fold_arithmetic: the
\* add, whose source and destination are the same register, was replaced by a
\* literal load of 11 into v0.
C5_Witness ==
  /\ Simplified /\ fresh /\ scanned = 2
  /\ CurOp \in AddImmediateOpcodes /\ inst[1].srcs = inst[1].dests
  /\ pre_state.regs[0] = Narrow(10)
  /\ m_insn_replacements =
       << [orig |-> inst[1],
           repl |-> [op |-> "CONST", dests |-> << 0 >>, srcs |-> << >>,
                     literal |-> << 0, 0, 11 >>, target |-> ""]] >>

\* The state of [const v0 INT32_MAX; add-int/lit v0, v0, 1] with
\* fold_arithmetic: v0 is Top and nothing was recorded.
C5_ScenarioB ==
  /\ Simplified /\ fresh /\ scanned = 2 /\ m_config.fold_arithmetic
  /\ CurOp \in AddImmediateOpcodes
  /\ pre_state.regs[0] = NarrowConstant(INT32_MAX)
  /\ current_state.regs[0] = TopValue
  /\ m_insn_replacements = << >>

\* C6: a register copy (move and move-object narrow, move-wide wide) sets the
\* destination to the source's exact constant when the source holds an exact
\* constant of the copy's width, and to Top in every other case, a constant
\* of the other width included.
C6_Copy ==
  (inst # << >> /\ CurOp \in CopyOpcodes) =>
    IF SourceBefore.kind = WidthKind(CurOp)
      THEN DestAfter = SourceBefore
      ELSE DestAfter = TopValue

\* C6 witness: a narrow copy of a wide constant gave Top.
C6_Witness ==
  /\ inst # << >> /\ CurOp = "MOVE_OBJECT"
  /\ SourceBefore.kind = "wide"
  /\ DestAfter = TopValue

\* The second register a compare reads, before the analysis.
Source2Before == pre_state.regs[inst[1].srcs[2]]

FloatingCompares == {"CMPL_FLOAT", "CMPG_FLOAT", "CMPL_DOUBLE", "CMPG_DOUBLE"}

Compares == FloatingCompares \cup {"CMP_LONG"}

\* The numeric reading of the operand bit patterns the model draws, as a rank
\* in the numeric order: -1.0 is -2, the smallest negative denormal -1, both
\* zeros 0, the smallest positive denormal 1, 1.0 is 2, +infinity 3.
FloatNaNs == {2143289344, -4194304, INT32_MAX - 1, INT32_MAX}

FloatRank(bits) ==
  CASE bits = -1082130432 -> -2
    [] bits = INT32_MIN + 1 -> -1
    [] bits \in {0, INT32_MIN} -> 0
    [] bits = 5 -> 1
    [] bits = 1065353216 -> 2
    [] bits = 2139095040 -> 3

DoubleNaNs == {<< 2146435072, 0, 1 >>, << INT32_MAX, 65535, 65535 >>}

DoubleRank(bits) ==
  CASE bits = << -1074790400, 0, 0 >> -> -2
    [] bits \in {<< 0, 0, 0 >>, << INT32_MIN, 0, 0 >>} -> 0
    [] bits = << 0, 0, 5 >> -> 1
    [] bits = << 1072693248, 0, 0 >> -> 2
    [] bits = << 2146435072, 0, 0 >> -> 3

\* The same bit patterns read as signed 64-bit integers, in increasing order.
LongRank(bits) ==
  CASE bits = << INT32_MIN, 0, 0 >> -> -2
    [] bits = << -1074790400, 0, 0 >> -> -1
    [] bits = << 0, 0, 0 >> -> 0
    [] bits = << 0, 0, 5 >> -> 1
    [] bits = << 1072693248, 0, 0 >> -> 2
    [] bits = << 2146435072, 0, 0 >> -> 3
    [] bits = << 2146435072, 0, 1 >> -> 4
    [] bits = << INT32_MAX, 65535, 65535 >> -> 5

OperandIsNaN(op, v) ==
  CASE op \in {"CMPL_FLOAT", "CMPG_FLOAT"} -> Truncate32(v.min) \in FloatNaNs
    [] op \in {"CMPL_DOUBLE", "CMPG_DOUBLE"} -> v.min \in DoubleNaNs
    [] OTHER -> FALSE

OperandRank(op, v) ==
  CASE op \in {"CMPL_FLOAT", "CMPG_FLOAT"} -> FloatRank(Truncate32(v.min))
    [] op \in {"CMPL_DOUBLE", "CMPG_DOUBLE"} -> DoubleRank(v.min)
    [] OTHER -> LongRank(v.min)

OperandKind(op) == IF op \in {"CMPL_FLOAT", "CMPG_FLOAT"} THEN "narrow" ELSE "wide"

CompareResult(op, l, r) ==
  IF OperandIsNaN(op, l) \/ OperandIsNaN(op, r)
    THEN IF op \in {"CMPL_FLOAT", "CMPL_DOUBLE"} THEN -1 ELSE 1
    ELSE IF OperandRank(op, l) > OperandRank(op, r) THEN 1
    ELSE IF OperandRank(op, l) = OperandRank(op, r) THEN 0
    ELSE -1

\* C7: a numeric comparison whose two operands are exact constants of the
\* operand width sets the destination to a narrow constant: for a floating
\* compare with a NaN operand -1 (cmpl) or +1 (cmpg); otherwise +1, 0 or -1
\* as left is greater than, equal to or less than right.  If an operand is
\* not an exact constant the destination becomes Top.
C7_Compare ==
  (inst # << >> /\ CurOp \in Compares) =>
    IF SourceBefore.kind = OperandKind(CurOp) /\ Source2Before.kind = OperandKind(CurOp)
      THEN DestAfter = NarrowConstant(CompareResult(CurOp, SourceBefore, Source2Before))
      ELSE DestAfter = TopValue

\* C7 witness: cmpg-double of a NaN whose payload lies in the low word only
\* with 1.0 gave +1.
C7_Witness ==
  /\ inst # << >> /\ CurOp = "CMPG_DOUBLE"
  /\ SourceBefore = [kind |-> "wide", min |-> << 2146435072, 0, 1 >>,
                     max |-> << 2146435072, 0, 1 >>]
  /\ Source2Before = [kind |-> "wide", min |-> << 1072693248, 0, 0 >>,
                      max |-> << 1072693248, 0, 0 >>]
  /\ DestAfter = [kind |-> "narrow", min |-> << 0, 0, 1 >>, max |-> << 0, 0, 1 >>]

\* Opcodes of the model with a transfer function of their own.
OwnTransfer ==
  {"CONST", "CONST_WIDE"} \cup CopyOpcodes \cup Compares
    \cup (IF m_config.fold_arithmetic THEN AddImmediateOpcodes ELSE {})

\* C8: every instruction with a destination whose opcode is not a literal
\* load, a register copy, a numeric comparison or (with fold_arithmetic) an
\* add-with-immediate sets its destination to Top, by one set_top call with
\* the destination's own width, whatever the destination held before; this
\* includes add-with-immediate when fold_arithmetic is disabled.
C8_DefaultTop ==
  (inst # << >> /\ Len(inst[1].dests) > 0 /\ CurOp \notin OwnTransfer) =>
    /\ DestAfter = TopValue
    /\ top_call = << [reg |-> inst[1].dests[1], is_wide |-> (CurOp = "NEG_LONG")] >>

\* C8 witness: with fold_arithmetic disabled an add-with-immediate of an
\* exact constant source overwrote an exact constant destination with Top.
C8_Witness ==
  /\ inst # << >> /\ CurOp \in AddImmediateOpcodes /\ ~m_config.fold_arithmetic
  /\ SourceBefore.kind = "narrow"
  /\ pre_state.regs[inst[1].dests[1]].kind = "narrow"
  /\ DestAfter = TopValue

\* The branch in inst reads a register written so far by default-path opcodes
\* only, or never written.
ReadsUnproven == \E k \in 1..Len(inst[1].srcs) : inst[1].srcs[k] \in unproven

\* A side of the branch is an exact constant at an end of the 64-bit range.
ExtremeConstant(v) ==
  /\ v.kind \in {"narrow", "wide"}
  /\ v.min \in {<< INT32_MIN, 0, 0 >>, << INT32_MAX, 65535, 65535 >>}

CountersUnchanged ==
  /\ m_branch_propagated' = m_branch_propagated
  /\ m_materialized_consts' = m_materialized_consts

C10_BottomUndetermined ==
  [][(SimplifyStep /\ current_state.bottom /\ CurOp \in IfOpcodes) =>
       /\ branch_result' = "none"
       /\ RecordsNothing
       /\ m_branch_propagated' = m_branch_propagated]_vars

\* C10 witness: in an unreachable block, if-lt on registers bound to 10 and 20
\* was left undetermined and nothing was recorded for it.
C10_Witness ==
  /\ Simplified /\ current_state.bottom
  /\ CurOp = "IF_LT" /\ inst[1].srcs = << 0, 1 >>
  /\ current_state.regs[0] = Narrow(10) /\ current_state.regs[1] = Narrow(20)
  /\ branch_result = "none"
  /\ m_branch_propagated = 0

\* A step of analyze_instruction.
AnalyzeStep == phase = "analyze" /\ phase' = "simplify"

\* Every instruction of the stream is, after the step, the instruction it was
\* and where it was.
StreamKept ==
  /\ Len(block') >= Len(block)
  /\ \A k \in 1..Len(block) : block'[k] = block[k]

\* The replacement list after the step is the list before it, or that list
\* with one pair appended whose original is the instruction simplified.
ReplacementsAppended ==
  \/ m_insn_replacements' = m_insn_replacements
  \/ /\ Len(m_insn_replacements') = Len(m_insn_replacements) + 1
     /\ SubSeq(m_insn_replacements', 1, Len(m_insn_replacements)) = m_insn_replacements
     /\ m_insn_replacements'[Len(m_insn_replacements')].orig = block[Len(block)]

\* C11: no call of analyze_instruction or simplify_instruction changes the
\* instruction stream: after an analyze call the stream is the stream before
\* it followed by the instruction the driver advanced to, as it was drawn;
\* after a simplify call the stream is the same sequence of the same
\* instructions (opcode, sources, destination, literal, target); and the only
\* trace of a rewrite is a pair appended to the replacement list whose
\* original is the unchanged instruction of the stream.
C11_StreamUntouched ==
  [][/\ StreamKept
     /\ AnalyzeStep =>
          /\ Len(block') = Len(block) + 1
          /\ block'[Len(block')] \in RunInsns
          /\ m_insn_replacements' = m_insn_replacements
     /\ SimplifyStep =>
          /\ block' = block
          /\ ReplacementsAppended]_vars

\* C11 witness: after [const v0 10; const v1 20; if-lt v0, v1] the stream
\* still ends with the if-lt although its replacement by a jump is recorded.
C11_Witness ==
  /\ phase = "done"
  /\ block =
       << [op |-> "CONST", dests |-> << 0 >>, srcs |-> << >>,
           literal |-> << 0, 0, 10 >>, target |-> ""],
          [op |-> "CONST", dests |-> << 1 >>, srcs |-> << >>,
           literal |-> << 0, 0, 20 >>, target |-> ""],
          [op |-> "IF_LT", dests |-> << >>, srcs |-> << 0, 1 >>,
           literal |-> Zero64, target |-> "L"] >>
  /\ m_insn_replacements = << [orig |-> block[3], repl |-> Plain("GOTO")] >>


\* The records of the replacement list whose replacement has one of the
\* opcodes ops.
RecordsWith(ops) ==
  {k \in 1..Len(m_insn_replacements) : m_insn_replacements[k].repl.op \in ops}

CountersMatch ==
  /\ m_branch_propagated = Cardinality(RecordsWith({"GOTO", "NOP"}))
  /\ m_materialized_consts = Cardinality(RecordsWith({"CONST", "CONST_WIDE"}))
  /\ m_branch_propagated + m_materialized_consts = Len(m_insn_replacements)

\* C12: after every call the branches-folded counter is the number of records
\* whose replacement is a jump or a no-op, the constants-materialized counter
\* is the number of records whose replacement is a literal load, and the two
\* add up to the length of the replacement list; a call of analyze_instruction
\* leaves the list and the counters as they were, and a call of
\* simplify_instruction leaves the list as it was or appends exactly one
\* record, whose original is the instruction simplified, after the records of
\* the instructions simplified before it.
C12_CountersAndOrder ==
  [][/\ CountersMatch'
     /\ AnalyzeStep => (RecordsNothing /\ CountersUnchanged)
     /\ SimplifyStep =>
          \/ RecordsNothing /\ CountersUnchanged
          \/ /\ Len(m_insn_replacements') = Len(m_insn_replacements) + 1
             /\ SubSeq(m_insn_replacements', 1, Len(m_insn_replacements))
                  = m_insn_replacements
             /\ m_insn_replacements'[Len(m_insn_replacements')].orig = inst[1]]_vars

\* C12 witness: [const v0 10; move v1, v0; if-lt v0, v1] with
\* replace_moves_with_consts: the list holds the literal load recorded for the
\* move and then the no-op recorded for the branch, and each counter is 1.
C12_Witness ==
  /\ phase = "done" /\ fresh
  /\ m_branch_propagated = 1 /\ m_materialized_consts = 1
  /\ m_insn_replacements =
       << [orig |-> [op |-> "MOVE", dests |-> << 1 >>, srcs |-> << 0 >>,
                     literal |-> Zero64, target |-> ""],
           repl |-> [op |-> "CONST", dests |-> << 1 >>, srcs |-> << >>,
                     literal |-> << 0, 0, 10 >>, target |-> ""]],
          [orig |-> [op |-> "IF_LT", dests |-> << >>, srcs |-> << 0, 1 >>,
                     literal |-> Zero64, target |-> "L"],
           repl |-> Plain("NOP")] >>


\* The twelve conditional-branch opcodes of the instruction set.
ConditionalBranches ==
  {"IF_EQ", "IF_NE", "IF_LT", "IF_GE", "IF_GT", "IF_LE",
   "IF_EQZ", "IF_NEZ", "IF_LTZ", "IF_GEZ", "IF_GTZ", "IF_LEZ"}

\* C13: simplify_instruction never raises the fatal condition of eval_if: it
\* calls eval_if for an instruction iff the opcode is one of the twelve
\* conditional branches, and eval_if then answers always taken, never taken
\* or undetermined; for every other opcode eval_if is not called, whatever
\* the environment (Top, intervals, constants of either width, unreachable).
C13_NoFatalCondition ==
  Simplified =>
    /\ branch_result # "abort"
    /\ CurOp \in ConditionalBranches => branch_result \in {"true", "false", "none"}
    /\ CurOp \notin ConditionalBranches => branch_result = "n/a"

\* C13 witness: a no-op, which has no source register for eval_if to read,
\* went through simplify_instruction in a reachable environment without
\* eval_if being called.
C13_Witness ==
  /\ Simplified /\ ~current_state.bottom
  /\ CurOp = "NOP" /\ inst[1].srcs = << >>
  /\ branch_result = "n/a"

\* C13 second witness state: a zero-compared branch on a register without
\* information was evaluated and left undetermined.
C13_WitnessBranch ==
  /\ Simplified /\ ~current_state.bottom
  /\ CurOp = "IF_GTZ" /\ LeftSide = TopValue
  /\ branch_result = "none"


\* The registers the instruction the step analyzes does not write.
NotWritten == {r \in Regs : Len(inst'[1].dests) = 0 \/ r # inst'[1].dests[1]}

\* C15: a call of analyze_instruction leaves the abstract value of every
\* register other than the instruction's destination as it was, for every
\* opcode and every environment, and leaves the whole environment as it was
\* when the instruction has no destination; a call of simplify_instruction,
\* eval_if included, leaves the environment as it was.
C15_Frame ==
  [][/\ AnalyzeStep =>
          /\ \A r \in NotWritten : current_state'.regs[r] = current_state.regs[r]
          /\ Len(inst'[1].dests) = 0 => current_state' = current_state
     /\ SimplifyStep => current_state' = current_state]_vars

\* C15 witness: cmp-long v0, v0, v1 on two wide constants wrote its result to
\* v0 and left v1, which it read, as it was.
C15_Witness ==
  /\ inst # << >> /\ CurOp = "CMP_LONG"
  /\ inst[1].dests = << 0 >> /\ inst[1].srcs = << 0, 1 >>
  /\ pre_state.regs[0].kind = "wide" /\ pre_state.regs[1].kind = "wide"
  /\ current_state.regs[0].kind = "narrow"
  /\ current_state.regs[1] = pre_state.regs[1]


\* Register r of the registers rf holds the value the environment env binds
\* it to, when that is an exact constant.
HoldsConstant(env, rf, r) ==
  CASE env.regs[r].kind = "narrow" -> rf[r] = [wide |-> FALSE, bits |-> env.regs[r].min]
    [] env.regs[r].kind = "wide" -> rf[r] = [wide |-> TRUE, bits |-> env.regs[r].min]
    [] OTHER -> TRUE

Sound == \A r \in Regs : HoldsConstant(current_state, regfile, r)

\* The step records a literal load.
RecordsLoad ==
  /\ Len(m_insn_replacements') = Len(m_insn_replacements) + 1
  /\ m_insn_replacements'[Len(m_insn_replacements')].repl.op \in {"CONST", "CONST_WIDE"}

\* C16: along a block scanned from the all-Top environment and executed from
\* arbitrary registers, every instruction reading registers of the width it
\* expects and add-with-immediate adding modulo 2^32: after every instruction
\* each register the environment binds to an exact constant holds that value,
\* of that width; a branch classified always taken jumps and one classified
\* never taken does not; and executing a recorded literal load in place of
\* its original, from the same registers, leaves the same registers.
C16_Sound ==
  [][/\ Sound'
     /\ SimplifyStep =>
          /\ branch_result' = "true" => taken = "yes"
          /\ branch_result' = "false" => taken = "no"
          /\ RecordsLoad =>
               LET pair == m_insn_replacements'[Len(m_insn_replacements')]
               IN /\ pair.orig = inst[1]
                  /\ pair.repl.dests = inst[1].dests
                  /\ Execute(pair.repl, regfile_before) = regfile]_vars

\* C16 witness: [const v0 INT32_MAX; add-int/lit8 v0, v0, 1; if-nez v0] with
\* fold_arithmetic, started with v0 = -1: the sum wrapped to INT32_MIN, which
\* the environment does not claim to know (v0 is Top), and the branch, which
\* jumps, was left undetermined.
C16_Witness ==
  /\ phase = "done" /\ m_config.fold_arithmetic
  /\ Len(block) = 3
  /\ block[1].op = "CONST" /\ block[1].literal = << 0, 32767, 65535 >>
  /\ block[2].op = "ADD_INT_LIT8" /\ block[3].op = "IF_NEZ"
  /\ regfile[0] = [wide |-> FALSE, bits |-> << -1, 32768, 0 >>]
  /\ current_state.regs[0] = TopValue
  /\ taken = "yes" /\ branch_result = "none"
  /\ m_insn_replacements = << >>

\* C16 second witness state: [const v0 10; add-int/lit8 v0, v0, 1; if-nez v0]
\* with fold_arithmetic: v0 holds 11 as the environment says, the add was
\* replaced by a load of 11 and the branch, which jumps, by a jump.
C16_WitnessFolded ==
  /\ phase = "done"
  /\ Len(block) = 3
  /\ block[2].op = "ADD_INT_LIT8" /\ block[3].op = "IF_NEZ"
  /\ regfile[0] = [wide |-> FALSE, bits |-> << 0, 0, 11 >>]
  /\ current_state.regs[0] = Narrow(11)
  /\ taken = "yes" /\ branch_result = "true"
  /\ Len(m_insn_replacements) = 2
  /\ m_insn_replacements[1].repl =
       [op |-> "CONST", dests |-> << 0 >>, srcs |-> << >>,
        literal |-> << 0, 0, 11 >>, target |-> ""]
  /\ m_insn_replacements[2].repl = Plain("GOTO")


====
